---- MODULE Spec2Model ----
(***************************************************************************)
(* Model of admin_async_upload/files.py: ResumableFile, the server side of *)
(* a resumable (chunked) upload.  Chunks are stored in a chunk storage     *)
(* under names derived from the request parameters, listed and matched by  *)
(* fnmatch, merged in sorted order into a temporary file and saved to the  *)
(* persistent storage.                                                     *)
(*                                                                         *)
(* Python strings are sequences of one-character strings, so that zfill,   *)
(* "%s" formatting, sorted() and fnmatch work on characters.  File         *)
(* contents are sequences of bytes.                                        *)
(***************************************************************************)
EXTENDS Integers, Sequences, FiniteSets, TLC

VARIABLES chunks, persistent, last, requests

vars == <<chunks, persistent, last, requests>>

(***************************************************************************)
(* Bounds of the model.                                                    *)
(***************************************************************************)
\* chunk numbers a request may carry: "1" .. MaxChunkNumber
MaxChunkNumber == 2
\* files the chunk storage and the persistent storage have room for, together
MaxFiles == 2

(***************************************************************************)
(* Characters and strings.                                                 *)
(***************************************************************************)
Digits == <<"0", "1", "2", "3", "4", "5", "6", "7", "8", "9">>

\* the code point of a character: what sorted() compares
Ord(c) ==
    CASE c = "!" -> 33 [] c = "*" -> 42 [] c = "/" -> 47
      [] c = "0" -> 48 [] c = "1" -> 49 [] c = "2" -> 50 [] c = "3" -> 51
      [] c = "4" -> 52 [] c = "5" -> 53 [] c = "6" -> 54 [] c = "7" -> 55
      [] c = "8" -> 56 [] c = "9" -> 57 [] c = "?" -> 63
      [] c = "[" -> 91 [] c = "]" -> 93 [] c = "_" -> 95
      [] c = "a" -> 97 [] c = "b" -> 98 [] c = "p" -> 112
      [] c = "r" -> 114 [] c = "t" -> 116

\* str < str of Python: lexicographic by code point, a proper prefix first
RECURSIVE StrLess(_, _)
StrLess(s, t) ==
    IF t = <<>> THEN FALSE
    ELSE IF s = <<>> THEN TRUE
    ELSE IF Head(s) = Head(t) THEN StrLess(Tail(s), Tail(t))
    ELSE Ord(Head(s)) < Ord(Head(t))

\* sorted(names): the names of a listing in ascending order
RECURSIVE Sorted(_)
Sorted(S) ==
    IF S = {} THEN <<>>
    ELSE LET m == CHOOSE x \in S : \A y \in S : x = y \/ StrLess(x, y)
         IN  <<m>> \o Sorted(S \ {m})

\* str(n) for a natural number
RECURSIVE Str(_)
Str(n) == IF n < 10 THEN <<Digits[n + 1]>> ELSE Str(n \div 10) \o <<Digits[(n % 10) + 1]>>

DigitValue(c) == CHOOSE d \in 0..9 : Digits[d + 1] = c

\* int(s) for a string of decimal digits
RECURSIVE ParseInt(_)
ParseInt(s) ==
    IF s = <<>> THEN 0
    ELSE 10 * ParseInt(SubSeq(s, 1, Len(s) - 1)) + DigitValue(s[Len(s)])

\* s.zfill(width): "0" on the left up to width, s itself when it is longer
\* variant of zfill: the string as it is
NoFill(s, width) == s

RECURSIVE zfill(_, _)
zfill(s, width) == IF Len(s) >= width THEN s ELSE zfill(<<"0">> \o s, width)

Contains(s, c) == \E i \in 1..Len(s) : s[i] = c

(***************************************************************************)
(* fnmatch.fnmatch(name, pat) on a POSIX host (normcase is the identity):  *)
(* "*" matches any run of characters, "?" one character, "[seq]" one       *)
(* character of seq, "[!seq]" one character not in seq, and a "[" with no  *)
(* closing "]" matches itself.  The alphabet has no "-", so a class has no *)
(* ranges.                                                                 *)
(***************************************************************************)
\* the index in rest (the pattern after "[") of the "]" closing the class, 0 if none
ClassEnd(rest) ==
    LET j0 == IF Len(rest) >= 1 /\ rest[1] = "!" THEN 2 ELSE 1
        j1 == IF Len(rest) >= j0 /\ rest[j0] = "]" THEN j0 + 1 ELSE j0
        closing == {j \in j1..Len(rest) : rest[j] = "]"}
    IN  IF closing = {} THEN 0 ELSE CHOOSE j \in closing : \A k \in closing : j <= k

RECURSIVE fnmatch(_, _)
fnmatch(name, pat) ==
    IF pat = <<>> THEN name = <<>>
    ELSE LET c == Head(pat)
             rest == Tail(pat)
         IN  IF c = "*" THEN
                 \E k \in 0..Len(name) : fnmatch(SubSeq(name, k + 1, Len(name)), rest)
             ELSE IF name = <<>> THEN FALSE
             ELSE IF c = "?" THEN fnmatch(Tail(name), rest)
             ELSE IF c = "[" /\ ClassEnd(rest) # 0 THEN
                 LET j == ClassEnd(rest)
                     negated == rest[1] = "!"
                     stuff == SubSeq(rest, IF negated THEN 2 ELSE 1, j - 1)
                     member == Contains(stuff, Head(name))
                 IN  (member # negated) /\ fnmatch(Tail(name), SubSeq(rest, j + 1, Len(rest)))
             ELSE Head(name) = c /\ fnmatch(Tail(name), rest)

(***************************************************************************)
(* The two storages, as ResumableFile uses them (the Storage API: exists,  *)
(* size, delete, save, listdir, open).  A storage is a function from the   *)
(* names it holds to their contents.                                       *)
(***************************************************************************)
EmptyStorage == [n \in {} |-> <<>>]

StorageExists(store, name) == name \in DOMAIN store

StorageSize(store, name) == Len(store[name])

\* deleting a name that is not there is not an error
StorageDelete(store, name) == [n \in DOMAIN store \ {name} |-> store[n]]

\* listdir('')[1]: the file names
StorageListdir(store) == DOMAIN store

StorageRead(store, name) == store[name]

\* the name save() really uses: the requested one when it is free, else the
\* requested one with a suffix that makes it free
RECURSIVE AvailableName(_, _)
AvailableName(store, name) ==
    IF name \notin DOMAIN store THEN name ELSE AvailableName(store, name \o <<"_", "a">>)

\* save(name, content): returns the storage with the content under the available name
StorageSave(store, name, content) ==
    LET actual == AvailableName(store, name)
    IN  [n \in DOMAIN store \cup {actual} |-> IF n = actual THEN content ELSE store[n]]

(***************************************************************************)
(* Results of a call: err is "" when it returned, else the exception;      *)
(* calls are the storage calls made, in order.                             *)
(***************************************************************************)
InvalidFilename == "Invalid filename"
ChunksMissing == "Chunk(s) still missing"
ChunkReadFailure == "chunk read failed"
ChunkNotFound == "chunk not found"
PersistentStoreFailure == "persistent save failed"

(***************************************************************************)
(* ResumableFile.  p is self.params: resumableFilename, resumableTotalSize,*)
(* resumableChunkNumber and resumableCurrentChunkSize, all strings.        *)
(***************************************************************************)
chunk_suffix == <<"_", "p", "a", "r", "t", "_">>

\* field.upload_to
upload_to == <<"u">>

\* filename: "%s_%s" % (resumableTotalSize, resumableFilename), no "/" allowed
filename(p) ==
    IF Contains(p.resumableFilename, "/")
    THEN [err |-> InvalidFilename, val |-> <<>>]
    ELSE [err |-> "", val |-> p.resumableTotalSize \o <<"_">> \o p.resumableFilename]

\* current_chunk_name: filename, chunk_suffix, the chunk number zero-filled to 4
current_chunk_name(p) ==
    LET f == filename(p)
    IN  IF f.err # "" THEN f
        ELSE [err |-> "", val |-> f.val \o chunk_suffix \o zfill(p.resumableChunkNumber, 4)]

\* storage_filename: resumable_storage.full_filename(self.filename, self.upload_to)
storage_filename(p) ==
    LET f == filename(p)
    IN  IF f.err # "" THEN f ELSE [err |-> "", val |-> upload_to \o <<"/">> \o f.val]

\* the loop of chunk_names over the sorted listing: self.filename is
\* evaluated in the loop body, so only when the listing is not empty
MatchingNames(files, f) ==
    IF files = <<>> THEN [err |-> "", val |-> <<>>, calls |-> <<"listdir">>]
    ELSE IF f.err # "" THEN [err |-> f.err, val |-> <<>>, calls |-> <<"listdir">>]
    ELSE [err |-> "",
          val |-> SelectSeq(files, LAMBDA n : fnmatch(n, f.val \o chunk_suffix \o <<"*">>)),
          calls |-> <<"listdir">>]

\* chunk_names: the sorted listing, filtered by fnmatch against
\* filename + chunk_suffix + "*"
chunk_names(store, p) == MatchingNames(Sorted(StorageListdir(store)), filename(p))

RECURSIVE SumSizes(_, _)
SumSizes(store, names) ==
    IF names = <<>> THEN 0 ELSE StorageSize(store, Head(names)) + SumSizes(store, Tail(names))

\* the loop of size over the chunk names cn
SizeOfNames(store, cn) ==
    IF cn.err # "" THEN [err |-> cn.err, val |-> 0, calls |-> cn.calls]
    ELSE [err |-> "", val |-> SumSizes(store, cn.val),
          calls |-> cn.calls \o [i \in 1..Len(cn.val) |-> "size"]]

\* size: the sizes of the chunks of chunk_names, added up
size(store, p) == SizeOfNames(store, chunk_names(store, p))

\* variant of EqualsTotal: complete as soon as the size reaches the total
AtLeastTotal(p, s) ==
    IF s.err # "" THEN [err |-> s.err, val |-> FALSE, calls |-> s.calls]
    ELSE [err |-> "", val |-> (ParseInt(p.resumableTotalSize) <= s.val), calls |-> s.calls]

\* int(resumableTotalSize) == s, for the size s
EqualsTotal(p, s) ==
    IF s.err # "" THEN [err |-> s.err, val |-> FALSE, calls |-> s.calls]
    ELSE [err |-> "", val |-> (ParseInt(p.resumableTotalSize) = s.val), calls |-> s.calls]

\* is_complete: int(resumableTotalSize) == self.size
is_complete(store, p) == EqualsTotal(p, size(store, p))

\* variant of ExistsWithSize: the stored size is not compared
ExistsOnly(store, p, n) ==
    IF n.err # "" THEN [err |-> n.err, val |-> FALSE, calls |-> <<>>]
    ELSE [err |-> "", val |-> StorageExists(store, n.val), calls |-> <<"exists">>]

\* exists(n) and size(n) == int(resumableCurrentChunkSize), for the chunk name n
ExistsWithSize(store, p, n) ==
    IF n.err # "" THEN [err |-> n.err, val |-> FALSE, calls |-> <<>>]
    ELSE IF ~StorageExists(store, n.val)
         THEN [err |-> "", val |-> FALSE, calls |-> <<"exists">>]
    ELSE [err |-> "",
          val |-> (StorageSize(store, n.val) = ParseInt(p.resumableCurrentChunkSize)),
          calls |-> <<"exists", "size">>]

\* chunk_exists: the chunk of current_chunk_name is stored with the declared size
chunk_exists(store, p) == ExistsWithSize(store, p, current_chunk_name(p))

\* variant of DeleteThenSave: the chunk of that name is not deleted first
SaveOnly(store, n, file) ==
    IF n.err # "" THEN [err |-> n.err, store |-> store, calls |-> <<>>]
    ELSE [err |-> "", store |-> StorageSave(store, n.val, file), calls |-> <<"save">>]

\* delete the chunk named n if it exists, then save file under n
DeleteThenSave(store, n, file) ==
    IF n.err # "" THEN [err |-> n.err, store |-> store, calls |-> <<>>]
    ELSE IF StorageExists(store, n.val)
         THEN [err |-> "", store |-> StorageSave(StorageDelete(store, n.val), n.val, file),
               calls |-> <<"exists", "delete", "save">>]
    ELSE [err |-> "", store |-> StorageSave(store, n.val, file),
          calls |-> <<"exists", "save">>]

\* variant of process_chunk: the chunk storage is cleared first
ProcessAfterCleanup(store, p, file) ==
    DeleteThenSave(EmptyStorage, current_chunk_name(p), file)

\* process_chunk(file): delete the chunk of that name if it exists, then save
process_chunk(store, p, file) == DeleteThenSave(store, current_chunk_name(p), file)

RECURSIVE DeleteAll(_, _)
DeleteAll(store, names) ==
    IF names = <<>> THEN store ELSE DeleteAll(StorageDelete(store, Head(names)), Tail(names))

\* variant of DeleteNames: only the first chunk name is deleted
DeleteFirstName(store, cn) ==
    IF cn.err # "" THEN [err |-> cn.err, store |-> store, calls |-> cn.calls]
    ELSE IF cn.val = <<>> THEN [err |-> "", store |-> store, calls |-> cn.calls]
    ELSE [err |-> "", store |-> StorageDelete(store, Head(cn.val)),
          calls |-> cn.calls \o <<"delete">>]

\* the deletions of delete_chunks over the chunk names cn
DeleteNames(store, cn) ==
    IF cn.err # "" THEN [err |-> cn.err, store |-> store, calls |-> cn.calls]
    ELSE [err |-> "", store |-> DeleteAll(store, cn.val),
          calls |-> cn.calls \o [i \in 1..Len(cn.val) |-> "delete"]]

\* delete_chunks: delete every chunk of chunk_names
delete_chunks(store, p) == DeleteNames(store, chunk_names(store, p))

(***************************************************************************)
(* The merge.  A read fault is an input of the call: the storage fails the *)
(* first `times` reads of the chunk at position `at` of the listing.       *)
(***************************************************************************)
NoFault == [at |-> 0, times |-> 0]

\* variant of WriteChunk: a read that fails is not tried again
WriteChunkNoRetry(store, name, failures) ==
    IF failures = 0 THEN [err |-> "", bytes |-> StorageRead(store, name), calls |-> <<"open">>]
    ELSE [err |-> ChunkReadFailure, bytes |-> <<>>, calls |-> <<"open">>]

\* one pass of the loop body: outfile.write(open(chunk).read()), and the same
\* again in the except branch; failures is how many reads of this chunk fail
WriteChunk(store, name, failures) ==
    IF failures = 0 THEN [err |-> "", bytes |-> StorageRead(store, name), calls |-> <<"open">>]
    ELSE IF failures = 1
         THEN [err |-> "", bytes |-> StorageRead(store, name), calls |-> <<"open", "open">>]
    ELSE [err |-> ChunkReadFailure, bytes |-> <<>>, calls |-> <<"open", "open">>]

\* one more pass after the passes before it: an exception ends the loop
ThenWrite(w, more) ==
    IF w.err # "" THEN w
    ELSE [err |-> more.err, bytes |-> w.bytes \o more.bytes, calls |-> w.calls \o more.calls]

\* the for loop of file over chunk_names, from position i on
RECURSIVE WriteChunks(_, _, _, _)
WriteChunks(store, names, i, fault) ==
    IF i > Len(names) THEN [err |-> "", bytes |-> <<>>, calls |-> <<>>]
    ELSE ThenWrite(WriteChunk(store, names[i], IF fault.at = i THEN fault.times ELSE 0),
                   WriteChunks(store, names, i + 1, fault))

\* the position of the temporary file when file returns it: every write
\* advanced it and nothing moves it back
HandlePosition(content) == Len(content)

\* the temporary file after the loop that wrote w
Written(calls, w) ==
    [err |-> w.err, content |-> w.bytes,
     pos |-> IF w.err = "" THEN HandlePosition(w.bytes) ELSE 0,
     calls |-> calls \o w.calls]

\* variant of Merge: the chunks are merged whether or not the upload is complete
MergeUnchecked(store, fault, c, cn) ==
    IF c.err # "" THEN [err |-> c.err, content |-> <<>>, pos |-> 0, calls |-> c.calls]
    ELSE IF cn.err # ""
         THEN [err |-> cn.err, content |-> <<>>, pos |-> 0, calls |-> c.calls \o cn.calls]
    ELSE Written(c.calls \o cn.calls, WriteChunks(store, cn.val, 1, fault))

\* file, after is_complete gave c and chunk_names gave cn
Merge(store, fault, c, cn) ==
    IF c.err # "" THEN [err |-> c.err, content |-> <<>>, pos |-> 0, calls |-> c.calls]
    ELSE IF ~c.val
         THEN [err |-> ChunksMissing, content |-> <<>>, pos |-> 0, calls |-> c.calls]
    ELSE IF cn.err # ""
         THEN [err |-> cn.err, content |-> <<>>, pos |-> 0, calls |-> c.calls \o cn.calls]
    ELSE Written(c.calls \o cn.calls, WriteChunks(store, cn.val, 1, fault))

\* file: the merged temporary file, or the exception
file(store, p, fault) == Merge(store, fault, is_complete(store, p), chunk_names(store, p))

\* what a reader gets that reads the handle from its current position
ReadFromPosition(handle) == SubSeq(handle.content, handle.pos + 1, Len(handle.content))

\* what the persistent storage writes of File(handle): File.chunks() seeks to 0
FileChunks(handle) == handle.content

\* variant of Raised: the chunks are cleaned up when collect fails
RaisedAfterCleanup(store, pstore, e, c) ==
    [err |-> e, name |-> <<>>, chunks |-> EmptyStorage, persistent |-> pstore, calls |-> c]

\* collect left by an exception: nothing returned
Raised(store, pstore, e, c) ==
    [err |-> e, name |-> <<>>, chunks |-> store, persistent |-> pstore, calls |-> c]

\* collect after the save: delete_chunks gave d, the persistent storage is saved
Saved(saved, name, calls, d) ==
    IF d.err # "" THEN Raised(d.store, saved, d.err, calls \o d.calls)
    ELSE [err |-> "", name |-> name, chunks |-> d.store, persistent |-> saved,
          calls |-> calls \o d.calls]

\* variant of SaveThenDelete: the chunks are deleted before the save
DeleteBeforeSave(store, pstore, sf, m, d, saveFails) ==
    IF sf.err # "" THEN Raised(store, pstore, sf.err, <<>>)
    ELSE IF m.err # "" THEN Raised(store, pstore, m.err, m.calls)
    ELSE IF saveFails
         THEN Raised(d.store, pstore, PersistentStoreFailure,
                     m.calls \o d.calls \o <<"persistent.save">>)
    ELSE Saved(StorageSave(pstore, sf.val, FileChunks(m)), AvailableName(pstore, sf.val),
               m.calls \o d.calls \o <<"persistent.save">>,
               [err |-> "", store |-> d.store, calls |-> <<>>])

\* collect, after storage_filename gave sf and file gave m; d is what
\* delete_chunks does when it is reached
SaveThenDelete(store, pstore, sf, m, d, saveFails) ==
    IF sf.err # "" THEN Raised(store, pstore, sf.err, <<>>)
    ELSE IF m.err # "" THEN Raised(store, pstore, m.err, m.calls)
    ELSE IF saveFails
         THEN Raised(store, pstore, PersistentStoreFailure, m.calls \o <<"persistent.save">>)
    ELSE Saved(StorageSave(pstore, sf.val, FileChunks(m)), AvailableName(pstore, sf.val),
               m.calls \o <<"persistent.save">>, d)

\* collect: save the merged file to the persistent storage, delete the chunks,
\* return the name the persistent storage used
collect(store, pstore, p, fault, saveFails) ==
    SaveThenDelete(store, pstore, storage_filename(p), file(store, p, fault),
                   delete_chunks(store, p), saveFails)

(***************************************************************************)
(* Requests.                                                               *)
(***************************************************************************)
Filenames == {<<"a">>, <<"[", "a", "]">>, <<"a", "/", "b">>}
TotalSizes == {<<"3">>}
ChunkNumbers == {Str(i) : i \in 1..MaxChunkNumber}
ChunkSizes == {<<"1">>, <<"2">>}
Payloads == {<<0>>, <<1, 1>>}

Params == [resumableFilename : Filenames, resumableTotalSize : TotalSizes,
           resumableChunkNumber : ChunkNumbers, resumableCurrentChunkSize : ChunkSizes]

\* requests to the operations that read neither the chunk number nor the chunk size
UploadParams == {p \in Params : p.resumableChunkNumber = <<"1">>
                                /\ p.resumableCurrentChunkSize = <<"1">>}

\* requests to process_chunk, which does not read the chunk size
ChunkParams == {p \in Params : p.resumableCurrentChunkSize = <<"1">>}

(***************************************************************************)
(* State.  chunks and persistent are the two storages.  last is the method *)
(* call that returned last: its request, its argument (file), its result   *)
(* (err, name, calls) and, for process_chunk, what the chunk storage held  *)
(* under the chunk's name when it was called (old, <<>> for nothing), for  *)
(* collect, what has become of the temporary file of the merge (temp).  The*)
(* properties of ResumableFile (chunk_exists, chunk_names, size,           *)
(* is_complete, file) change nothing: they are the operators above,        *)
(* applied to the chunk storage as it is.  requests are the calls in       *)
(* flight at once, each at a storage call of its method; where the methods *)
(* are called one after the other there are none.                          *)
(***************************************************************************)
\* the calls that can be in flight at once
Requests == {1, 2}

\* a call in flight: its method (op), the storage call it is at (pc), its
\* request and argument, the chunk names it iterates over (names, at i), the
\* size it has added up (sum), the listing its completeness check saw
\* (checked) and the one its merge read (merged), the temporary file
\* (content), its exception (err) and the name the save returned (name)
NoRequest ==
    [op |-> "none", pc |-> "done", params |-> CHOOSE p \in UploadParams : TRUE,
     file |-> <<>>, names |-> <<>>, i |-> 0, sum |-> 0, checked |-> <<>>, merged |-> <<>>,
     content |-> <<>>, err |-> "", name |-> <<>>]

NoCall == [op |-> "none", params |-> CHOOSE p \in UploadParams : TRUE, file |-> <<>>,
           old |-> <<>>, err |-> "", name |-> <<>>, calls |-> <<>>, temp |-> "none"]

\* what the chunk storage holds under the chunk name n, <<>> for nothing
Held(store, n) == IF n.err = "" /\ StorageExists(store, n.val) THEN store[n.val] ELSE <<>>

Init ==
    /\ chunks = EmptyStorage
    /\ persistent = EmptyStorage
    /\ last = NoCall
    /\ requests = [r \in Requests |-> NoRequest]

ProcessChunkStep(p, f, r) ==
    /\ Cardinality(DOMAIN r.store) + Cardinality(DOMAIN persistent) <= MaxFiles
    /\ chunks' = r.store
    /\ last' = [NoCall EXCEPT !.op = "process_chunk", !.params = p, !.file = f,
                              !.old = Held(chunks, current_chunk_name(p)),
                              !.err = r.err, !.calls = r.calls]
    /\ UNCHANGED <<persistent, requests>>

ProcessChunk(p, f) == ProcessChunkStep(p, f, process_chunk(chunks, p, f))

DeleteChunksStep(p, r) ==
    /\ chunks' = r.store
    /\ last' = [NoCall EXCEPT !.op = "delete_chunks", !.params = p, !.err = r.err,
                              !.calls = r.calls]
    /\ UNCHANGED <<persistent, requests>>

DeleteChunks(p) == DeleteChunksStep(p, delete_chunks(chunks, p))

Returned(op, p, r) ==
    [NoCall EXCEPT !.op = op, !.params = p, !.err = r.err, !.name = r.name, !.calls = r.calls]

\* the temporary file when collect is left: file creates it once the upload
\* is found complete, and neither file nor collect closes it; it is
\* released when the garbage collector finds it unreferenced, which may be
\* before collect is left or after
TempAfter(r) ==
    IF r.err \in {InvalidFilename, ChunksMissing} THEN {"none"} ELSE {"open", "released"}

CollectStep(p, saveFails, r) ==
    /\ saveFails => (r.err = PersistentStoreFailure)
    /\ Cardinality(DOMAIN r.chunks) + Cardinality(DOMAIN r.persistent) <= MaxFiles
    /\ chunks' = r.chunks
    /\ persistent' = r.persistent
    /\ \E t \in TempAfter(r) : last' = [Returned("collect", p, r) EXCEPT !.temp = t]
    /\ UNCHANGED requests

\* the faults a call can meet: a read fault at a chunk it gets to read, a
\* failing save when it gets to save
FaultsFor(c, cn) ==
    IF c.err = "" /\ c.val THEN {NoFault} \cup [at : 1..Len(cn.val), times : 1..2]
    ELSE {NoFault}

CollectWith(p, c, cn) ==
    \E fault \in FaultsFor(c, cn), saveFails \in {FALSE, c.err = "" /\ c.val} :
        CollectStep(p, saveFails, collect(chunks, persistent, p, fault, saveFails))

Collect(p) == CollectWith(p, is_complete(chunks, p), chunk_names(chunks, p))

Next ==
    \/ \E p \in ChunkParams, f \in Payloads : ProcessChunk(p, f)
    \/ \E p \in UploadParams : DeleteChunks(p)
    \/ \E p \in UploadParams : Collect(p)

Spec == Init /\ [][Next]_vars

(***************************************************************************)
(* Calls in flight at once.  ResumableFile takes no lock, so between any   *)
(* two storage calls of one request any storage call of another can take   *)
(* place: every storage call is a step of its own.  The requests are for   *)
(* one upload, whose chunk storage is as earlier process_chunk calls left  *)
(* it.                                                                     *)
(***************************************************************************)
\* the upload the requests are for
SharedUpload == CHOOSE p \in UploadParams : p.resumableFilename = <<"a">>

\* the process_chunk requests for that upload
SharedChunkParams == {p \in ChunkParams : p.resumableFilename = SharedUpload.resumableFilename}

\* the chunk storages that process_chunk calls for that upload leave
StoredUploads ==
    UNION {[S -> Payloads] : S \in SUBSET {current_chunk_name(p).val : p \in SharedChunkParams}}

\* a call of the method op at its first storage call
Call(op, p, f, pc) == [NoRequest EXCEPT !.op = op, !.pc = pc, !.params = p, !.file = f]

Calls ==
    {Call("collect", SharedUpload, <<>>, "is_complete")}
    \cup {Call("process_chunk", p, f, "exists") : p \in SharedChunkParams, f \in Payloads}

ConcurrentInit ==
    /\ chunks \in StoredUploads
    /\ persistent = EmptyStorage
    /\ last = NoCall
    /\ requests \in [Requests -> Calls]

At(r, op, pc) == requests[r].op = op /\ requests[r].pc = pc

Becomes(r, q) == requests' = [requests EXCEPT ![r] = q]

\* the request left by the exception e
Failed(q, e) == [q EXCEPT !.pc = "done", !.err = e]

\* size: the next chunk of the loop, or after the loop the comparison of
\* is_complete and the check of file
Compare(q) ==
    IF q.i <= Len(q.names) THEN [q EXCEPT !.pc = "size"]
    ELSE IF ParseInt(q.params.resumableTotalSize) = q.sum THEN [q EXCEPT !.pc = "chunk_names"]
    ELSE Failed(q, ChunksMissing)

\* collect, file, is_complete, size: the listing of chunk_names
Listed(q, cn) ==
    IF cn.err # "" THEN Failed(q, cn.err)
    ELSE Compare([q EXCEPT !.names = cn.val, !.checked = cn.val, !.i = 1, !.sum = 0])

IsCompleteList(r) ==
    /\ At(r, "collect", "is_complete")
    /\ Becomes(r, Listed(requests[r], chunk_names(chunks, requests[r].params)))
    /\ UNCHANGED <<chunks, persistent, last>>

\* size: chunk_storage.size(chunk), which raises for a chunk that is gone
Sized(store, q) ==
    IF ~StorageExists(store, q.names[q.i]) THEN Failed(q, ChunkNotFound)
    ELSE Compare([q EXCEPT !.sum = @ + StorageSize(store, q.names[q.i]), !.i = @ + 1])

SizeOfChunk(r) ==
    /\ At(r, "collect", "size")
    /\ Becomes(r, Sized(chunks, requests[r]))
    /\ UNCHANGED <<chunks, persistent, last>>

\* file: the next chunk of the loop, or after the loop the save of collect
NextOpen(q) ==
    IF q.i <= Len(q.names) THEN [q EXCEPT !.pc = "open"]
    ELSE [q EXCEPT !.pc = "persistent.save"]

\* file: the listing of chunk_names for the loop, a second one
MergeList(r) ==
    /\ At(r, "collect", "chunk_names")
    /\ Becomes(r, NextOpen([requests[r] EXCEPT
                               !.names = chunk_names(chunks, requests[r].params).val,
                               !.merged = chunk_names(chunks, requests[r].params).val,
                               !.i = 1, !.content = <<>>]))
    /\ UNCHANGED <<chunks, persistent, last>>

\* file: outfile.write(open(chunk).read())
Wrote(store, q) ==
    NextOpen([q EXCEPT !.content = @ \o StorageRead(store, q.names[q.i]), !.i = @ + 1])

\* file: the try branch; open raises for a chunk that is gone
OpenChunk(r) ==
    /\ At(r, "collect", "open")
    /\ Becomes(r, IF StorageExists(chunks, requests[r].names[requests[r].i])
                  THEN Wrote(chunks, requests[r])
                  ELSE [requests[r] EXCEPT !.pc = "retry"])
    /\ UNCHANGED <<chunks, persistent, last>>

\* file: the except branch, the same once more
RetryChunk(r) ==
    /\ At(r, "collect", "retry")
    /\ Becomes(r, IF StorageExists(chunks, requests[r].names[requests[r].i])
                  THEN Wrote(chunks, requests[r])
                  ELSE Failed(requests[r], ChunkReadFailure))
    /\ UNCHANGED <<chunks, persistent, last>>

\* collect: persistent_storage.save(self.storage_filename, File(self.file))
PersistentSave(r) ==
    /\ At(r, "collect", "persistent.save")
    /\ persistent' = StorageSave(persistent, storage_filename(requests[r].params).val,
                                 requests[r].content)
    /\ Becomes(r, [requests[r] EXCEPT
                      !.name = AvailableName(persistent, storage_filename(requests[r].params).val),
                      !.pc = "delete_chunks"])
    /\ UNCHANGED <<chunks, last>>

\* variant of NextDelete: the loop ends after the chunk it is at
OneDelete(q) == [q EXCEPT !.pc = "done"]

\* delete_chunks: the next chunk of the comprehension, or the return of collect
NextDelete(q) ==
    IF q.i <= Len(q.names) THEN [q EXCEPT !.pc = "delete"] ELSE [q EXCEPT !.pc = "done"]

\* delete_chunks: the listing of chunk_names, a third one
DeleteList(r) ==
    /\ At(r, "collect", "delete_chunks")
    /\ Becomes(r, NextDelete([requests[r] EXCEPT
                                 !.names = chunk_names(chunks, requests[r].params).val,
                                 !.i = 1]))
    /\ UNCHANGED <<chunks, persistent, last>>

\* delete_chunks: chunk_storage.delete(chunk)
DeleteChunk(r) ==
    /\ At(r, "collect", "delete")
    /\ chunks' = StorageDelete(chunks, requests[r].names[requests[r].i])
    /\ Becomes(r, NextDelete([requests[r] EXCEPT !.i = @ + 1]))
    /\ UNCHANGED <<persistent, last>>

\* process_chunk: chunk_storage.exists(self.current_chunk_name)
ChunkExists(r) ==
    /\ At(r, "process_chunk", "exists")
    /\ Becomes(r, [requests[r] EXCEPT
                      !.pc = IF StorageExists(chunks, current_chunk_name(requests[r].params).val)
                             THEN "delete" ELSE "save"])
    /\ UNCHANGED <<chunks, persistent, last>>

\* process_chunk: chunk_storage.delete(self.current_chunk_name)
ChunkDelete(r) ==
    /\ At(r, "process_chunk", "delete")
    /\ chunks' = StorageDelete(chunks, current_chunk_name(requests[r].params).val)
    /\ Becomes(r, [requests[r] EXCEPT !.pc = "save"])
    /\ UNCHANGED <<persistent, last>>

\* process_chunk: chunk_storage.save(self.current_chunk_name, file)
ChunkSave(r) ==
    /\ At(r, "process_chunk", "save")
    /\ chunks' = StorageSave(chunks, current_chunk_name(requests[r].params).val,
                             requests[r].file)
    /\ Becomes(r, [requests[r] EXCEPT
                      !.name = AvailableName(chunks, current_chunk_name(requests[r].params).val),
                      !.pc = "done"])
    /\ UNCHANGED <<persistent, last>>

ConcurrentNext ==
    \/ \E r \in Requests : IsCompleteList(r)
    \/ \E r \in Requests : SizeOfChunk(r)
    \/ \E r \in Requests : MergeList(r)
    \/ \E r \in Requests : OpenChunk(r)
    \/ \E r \in Requests : RetryChunk(r)
    \/ \E r \in Requests : PersistentSave(r)
    \/ \E r \in Requests : DeleteList(r)
    \/ \E r \in Requests : DeleteChunk(r)
    \/ \E r \in Requests : ChunkExists(r)
    \/ \E r \in Requests : ChunkDelete(r)
    \/ \E r \in Requests : ChunkSave(r)

ConcurrentSpec == ConcurrentInit /\ [][ConcurrentNext]_vars

(***************************************************************************)
(* Chunk numbers.  The chunks of one upload, one byte each, sent under     *)
(* chunk numbers of one to four digits, written with and without leading   *)
(* zeros, in any order.  The byte of a chunk is its number, so that a      *)
(* merged file shows the order of its chunks.                              *)
(***************************************************************************)
\* chunks of the upload the chunk storage has room for
MaxNumbered == 3

\* the chunk numbers sent
SentNumbers == {1, 2, 9, 10, 100, 9999}

RECURSIVE Zeros(_)
Zeros(k) == IF k = 0 THEN <<>> ELSE <<"0">> \o Zeros(k - 1)

\* the ways to write n with at most four digits
FormsOf(n) == {Zeros(k) \o Str(n) : k \in 0..(4 - Len(Str(n)))}

\* the requests that send the chunk number n
NumberedParams(n) == {[SharedUpload EXCEPT !.resumableChunkNumber = s] : s \in FormsOf(n)}

NumberedStep(p, f, r) ==
    /\ Cardinality(DOMAIN r.store) <= MaxNumbered
    /\ chunks' = r.store
    /\ last' = [NoCall EXCEPT !.op = "process_chunk", !.params = p, !.file = f,
                              !.old = Held(chunks, current_chunk_name(p)),
                              !.err = r.err, !.calls = r.calls]
    /\ UNCHANGED <<persistent, requests>>

\* process_chunk of the chunk number n, written as in p
ProcessNumbered(n, p) == NumberedStep(p, <<n>>, process_chunk(chunks, p, <<n>>))

NumberedNext == \E n \in SentNumbers : \E p \in NumberedParams(n) : ProcessNumbered(n, p)

NumberedSpec == Init /\ [][NumberedNext]_vars

(***************************************************************************)
(* Properties.                                                             *)
(***************************************************************************)
\* the request p, for chunk number i
WithNumber(p, i) == [p EXCEPT !.resumableChunkNumber = Str(i)]

\* the name process_chunk stores chunk number i of the upload of p under
NameOf(p, i) == current_chunk_name(WithNumber(p, i)).val

\* the upload identity of p can be derived
Valid(p) == filename(p).err = ""

Total(p) == ParseInt(p.resumableTotalSize)

\* the payloads of the chunks 1..n of the upload of p, in ascending chunk number
RECURSIVE InOrder(_, _, _)
InOrder(store, p, n) ==
    IF n = 0 THEN <<>> ELSE InOrder(store, p, n - 1) \o store[NameOf(p, n)]

\* the chunk storage holds the chunks 1..n of the upload of p and nothing
\* else, and their sizes add up to the declared total
HoldsExactly(p, n) ==
    /\ DOMAIN chunks = {NameOf(p, i) : i \in 1..n}
    /\ Len(InOrder(chunks, p, n)) = Total(p)

MergedInOrder(p, n, m) ==
    /\ is_complete(chunks, p).val
    /\ m.err = ""
    /\ m.content = InOrder(chunks, p, n)

\* C1: whatever the order the chunks 1..N of an upload were delivered in,
\* once process_chunk has stored the last of them (their sizes adding up to
\* resumableTotalSize) is_complete is true and the merged file is the
\* payloads in ascending chunk number.
C1_MergedInChunkOrder ==
    \A n \in 1..MaxChunkNumber :
        (/\ last.op = "process_chunk"
         /\ last.err = ""
         /\ HoldsExactly(last.params, n))
        => MergedInOrder(last.params, n, file(chunks, last.params, NoFault))

\* C2: collect called while the size of the stored matching chunks differs
\* from resumableTotalSize raises "Chunk(s) still missing" and leaves both
\* storages as they were.  (Requests whose filename holds "/" have no upload
\* identity; they are the subject of C5.)
C2_IncompleteCollectFails ==
    [][(/\ last'.op = "collect"
        /\ Valid(last'.params)
        /\ size(chunks, last'.params).val # Total(last'.params))
       => (/\ last'.err = ChunksMissing
           /\ chunks' = chunks
           /\ persistent' = persistent
           /\ \A i \in 1..Len(last'.calls) :
                  last'.calls[i] \notin {"delete", "save", "persistent.save"})]_vars

\* a collect was refused while chunks of the upload were stored
C2_Witness ==
    /\ last.op = "collect"
    /\ last.err = ChunksMissing
    /\ chunk_names(chunks, last.params).val # <<>>
    /\ persistent = EmptyStorage

\* every delete among the calls comes after a persistent.save
DeletesFollowSave(calls) ==
    \A i \in 1..Len(calls) :
        calls[i] = "delete" => \E j \in 1..(i - 1) : calls[j] = "persistent.save"

\* C3: within collect the chunks are deleted only after the save to the
\* persistent storage has returned: a collect that fails, in the merge or in
\* the save, has deleted nothing and leaves the chunk storage as it was when
\* it started.
C3_DeleteOnlyAfterSave ==
    [][last'.op = "collect"
       => (/\ DeletesFollowSave(last'.calls)
           /\ last'.err # ""
              => (/\ chunks' = chunks
                  /\ \A i \in 1..Len(last'.calls) : last'.calls[i] # "delete"))]_vars

\* a collect of a complete upload failed in the save, and the chunks are there
C3_Witness ==
    /\ last.op = "collect"
    /\ last.err = PersistentStoreFailure
    /\ is_complete(chunks, last.params).val
    /\ persistent = EmptyStorage

\* C4: after a collect that returned, chunk_names of that upload is empty.
C4_NoChunkNamesAfterCollect ==
    (last.op = "collect" /\ last.err = "")
    => (/\ chunk_names(chunks, last.params).err = ""
        /\ chunk_names(chunks, last.params).val = <<>>)

\* a collect returned the name of the file it saved
C4_Witness ==
    /\ last.op = "collect"
    /\ last.err = ""
    /\ last.name \in DOMAIN persistent
    /\ Len(persistent[last.name]) = Total(last.params)

\* the call raised "Invalid filename" and had made no storage call
RejectedFirst(r) == r.err = InvalidFilename /\ r.calls = <<>>

\* C5: when resumableFilename holds "/", process_chunk, chunk_exists,
\* chunk_names, size, is_complete, file, delete_chunks and collect all raise
\* "Invalid filename" before any call of the chunk storage or the
\* persistent storage.
C5_SlashRejectedBeforeStorage ==
    \A p \in Params :
        Contains(p.resumableFilename, "/")
        => (/\ \A f \in Payloads : RejectedFirst(process_chunk(chunks, p, f))
            /\ RejectedFirst(chunk_exists(chunks, p))
            /\ RejectedFirst(chunk_names(chunks, p))
            /\ RejectedFirst(size(chunks, p))
            /\ RejectedFirst(is_complete(chunks, p))
            /\ RejectedFirst(file(chunks, p, NoFault))
            /\ RejectedFirst(delete_chunks(chunks, p))
            /\ RejectedFirst(collect(chunks, persistent, p, NoFault, FALSE)))

\* the process_chunk that returned last found its chunk stored already
Resent == last.op = "process_chunk" /\ last.err = "" /\ last.old # <<>>

\* C6: a process_chunk that repeats one with the same upload identity, the
\* same chunk number and the same bytes changes nothing: the names in the
\* chunk storage, the content of every chunk and the size of the upload are
\* what they were after the first call.  A process_chunk that returns has
\* stored its bytes under the chunk's name, so the repeat is a call that
\* finds its bytes there.
C6_SameBytesIdempotent ==
    [][(last'.op = "process_chunk" /\ last'.err = "")
       => (/\ StorageExists(chunks', current_chunk_name(last'.params).val)
           /\ Held(chunks', current_chunk_name(last'.params)) = last'.file
           /\ Held(chunks, current_chunk_name(last'.params)) = last'.file
              => (/\ chunks' = chunks
                  /\ size(chunks', last'.params) = size(chunks, last'.params)))]_vars

\* a chunk was sent again with the bytes it was stored with
C6_Witness == Resent /\ last.old = last.file

\* s is a prefix of t
IsPrefix(s, t) == Len(s) <= Len(t) /\ SubSeq(t, 1, Len(s)) = s

\* the places of the names for the chunk named n in the chunk names cn
PlacesOf(n, cn) == {i \in 1..Len(cn) : IsPrefix(n, cn[i])}

\* C7: sending chunk k again with different bytes replaces the stored
\* chunk: afterwards chunk_names holds exactly one name for chunk k, the
\* content of that chunk is the new bytes, and no chunk that a later merge
\* reads for chunk k holds the old ones.
C7_OtherBytesReplace ==
    (Resent /\ last.old # last.file)
    => (/\ Cardinality(PlacesOf(current_chunk_name(last.params).val,
                                chunk_names(chunks, last.params).val)) = 1
        /\ Held(chunks, current_chunk_name(last.params)) = last.file
        /\ \A i \in PlacesOf(current_chunk_name(last.params).val,
                              chunk_names(chunks, last.params).val) :
               chunks[chunk_names(chunks, last.params).val[i]] = last.file)

\* the sizes of the names of S in the chunk storage, added up
RECURSIVE StoredSize(_)
StoredSize(S) ==
    IF S = {} THEN 0
    ELSE LET n == CHOOSE x \in S : TRUE IN Len(chunks[n]) + StoredSize(S \ {n})

\* the stored names that match the pattern of the upload of p
Matching(p) ==
    {n \in DOMAIN chunks : fnmatch(n, filename(p).val \o chunk_suffix \o <<"*">>)}

\* C8: is_complete keeps nothing between calls: in every state it is true
\* exactly when the sizes, as stored now, of the chunks that match the
\* pattern of the upload add up to resumableTotalSize, whatever was added,
\* overwritten or deleted before.
C8_CompleteIffSizesAddUp ==
    \A p \in UploadParams :
        Valid(p)
        => (/\ is_complete(chunks, p).err = ""
            /\ is_complete(chunks, p).val <=> (StoredSize(Matching(p)) = Total(p)))

\* an upload became complete by a chunk that was sent again with other bytes
C8_Witness ==
    /\ Resent
    /\ is_complete(chunks, last.params).val
    /\ last.old # last.file

\* the chunk of the request p is stored with fewer bytes than p declares
Truncated(p) ==
    /\ StorageExists(chunks, current_chunk_name(p).val)
    /\ StorageSize(chunks, current_chunk_name(p).val) < ParseInt(p.resumableCurrentChunkSize)

\* the chunk storage holds chunks of the upload of p only, and the declared
\* size of the chunk of p and the sizes of the others add up to the total
OthersAsDeclared(p) ==
    /\ DOMAIN chunks \subseteq {NameOf(p, i) : i \in 1..MaxChunkNumber}
    /\ ParseInt(p.resumableCurrentChunkSize)
           + StoredSize(DOMAIN chunks \ {current_chunk_name(p).val}) = Total(p)

\* C9: chunk_exists is true exactly when the chunk of the request is stored
\* and its stored size equals resumableCurrentChunkSize; a chunk stored with
\* fewer bytes than declared is not there for chunk_exists, and while it is
\* stored so, the other chunks of the upload being at their declared sizes,
\* is_complete is false.
C9_ChunkExistsIffDeclaredSize ==
    \A p \in Params :
        Valid(p)
        => (/\ chunk_exists(chunks, p).err = ""
            /\ chunk_exists(chunks, p).val
               <=> (/\ StorageExists(chunks, current_chunk_name(p).val)
                    /\ StorageSize(chunks, current_chunk_name(p).val)
                           = ParseInt(p.resumableCurrentChunkSize))
            /\ Truncated(p) => ~chunk_exists(chunks, p).val
            /\ (Truncated(p) /\ OthersAsDeclared(p)) => ~is_complete(chunks, p).val)

\* a chunk is stored truncated, the other chunks of the upload as declared
C9_Witness ==
    \E p \in Params :
        /\ p.resumableFilename = <<"a">>
        /\ Truncated(p)
        /\ OthersAsDeclared(p)
        /\ Cardinality(DOMAIN chunks) > 1

\* C10: the handle that file returns for a complete upload is at offset 0 of
\* the merged content: reading it from where it is gives the whole content.
C10_HandleAtStart ==
    \A p \in UploadParams :
        (Valid(p) /\ is_complete(chunks, p).val)
        => (/\ file(chunks, p, NoFault).err = ""
            /\ file(chunks, p, NoFault).pos = 0
            /\ ReadFromPosition(file(chunks, p, NoFault)) = file(chunks, p, NoFault).content)

\* the collect request q has passed its merged file to the persistent storage
Persisted(q) == q.op = "collect" /\ q.name # <<>>

\* C11: however collect and process_chunk requests for one upload
\* interleave, what a collect passes to the persistent storage has the
\* length resumableTotalSize and is built from the listing that passed its
\* completeness check: the chunks of the upload in ascending order.
C11_PersistsWhatItChecked ==
    \A r \in Requests :
        Persisted(requests[r])
        => (/\ Len(requests[r].content) = Total(requests[r].params)
            /\ requests[r].merged = requests[r].checked
            /\ persistent[requests[r].name] = requests[r].content)

BothCollect == \A r \in Requests : requests[r].op = "collect"

BothDone == \A r \in Requests : requests[r].pc = "done"

\* C12: of two collect calls in flight for one complete upload, the one
\* that deletes a chunk the other has deleted already does not fail by it:
\* no collect fails once it has saved, and when both have finished no
\* chunk that matches the upload is left in the chunk storage.
C12_BothCollectsLeaveNoChunk ==
    (BothCollect /\ is_complete(chunks, SharedUpload).val)
    => [](/\ \A r \in Requests : Persisted(requests[r]) => requests[r].err = ""
          /\ BothDone => chunk_names(chunks, SharedUpload).val = <<>>)

\* both collects have saved and finished, and both deleted the same chunk
C12_Witness ==
    /\ BothCollect
    /\ BothDone
    /\ \A r \in Requests : Persisted(requests[r]) /\ requests[r].err = ""
    /\ \E i \in 1..Len(requests[1].names) , j \in 1..Len(requests[2].names) :
           requests[1].names[i] = requests[2].names[j]

\* the name n is one that process_chunk stores chunks of the upload of p under
OwnChunk(p, n) == IsPrefix(filename(p).val \o chunk_suffix, n)

\* the uploads of p and q have different upload identities
OtherUpload(p, q) == Valid(p) /\ Valid(q) /\ filename(p).val # filename(q).val

\* the chunks in store that are not chunks of the upload of p
OthersIn(store, p) == {n \in DOMAIN store : ~OwnChunk(p, n)}

\* C13: of two uploads with different upload identities, chunk_names (and
\* with it size, is_complete and the merge) and delete_chunks of the one
\* involve only chunks that process_chunk stored for it, and delete_chunks
\* and process_chunk of the one change neither the chunks nor the
\* completeness of the other.
C13_UploadsIsolated ==
    \A p \in UploadParams, q \in UploadParams :
        OtherUpload(p, q)
        => (/\ \A i \in 1..Len(chunk_names(chunks, p).val) :
                   OwnChunk(p, chunk_names(chunks, p).val[i])
            /\ OthersIn(delete_chunks(chunks, p).store, p) = OthersIn(chunks, p)
            /\ is_complete(delete_chunks(chunks, p).store, q).val = is_complete(chunks, q).val
            /\ \A f \in Payloads :
                   is_complete(process_chunk(chunks, p, f).store, q).val
                       = is_complete(chunks, q).val)

\* the contents of the chunks of names, one after the other
RECURSIVE ContentsOf(_, _)
ContentsOf(store, names) ==
    IF names = <<>> THEN <<>> ELSE store[Head(names)] \o ContentsOf(store, Tail(names))

\* how many of the calls are open
Opens(calls) == Cardinality({i \in 1..Len(calls) : calls[i] = "open"})

\* the merge m, one read of which failed, has every chunk once, in order
RetriedOnce(p, m) ==
    /\ m.err = ""
    /\ m.content = ContentsOf(chunks, chunk_names(chunks, p).val)
    /\ Opens(m.calls) = Len(chunk_names(chunks, p).val) + 1

\* the collect c, a chunk of which could not be read, changed nothing
NothingDone(c) ==
    /\ c.err = ChunkReadFailure
    /\ c.chunks = chunks
    /\ c.persistent = persistent

\* C14: a read of a chunk that fails during the merge is tried again once.
\* When the second read succeeds the merged file has the bytes of that
\* chunk once, in its place; when both fail the merge raises the read
\* error, nothing is saved and every chunk is still in the chunk storage.
C14_ReadRetriedOnce ==
    \A p \in UploadParams :
        (Valid(p) /\ is_complete(chunks, p).val)
        => \A at \in 1..Len(chunk_names(chunks, p).val) :
               /\ RetriedOnce(p, file(chunks, p, [at |-> at, times |-> 1]))
               /\ file(chunks, p, [at |-> at, times |-> 2]).err = ChunkReadFailure
               /\ NothingDone(collect(chunks, persistent, p, [at |-> at, times |-> 2], FALSE))

\* a collect failed in the reads of a chunk, and the upload is still complete
C14_Witness ==
    /\ last.op = "collect"
    /\ last.err = ChunkReadFailure
    /\ Opens(last.calls) > 1
    /\ is_complete(chunks, last.params).val

\* the collect c saved the whole merged file and left no chunk of the upload of p
ReachedDone(p, c) ==
    /\ c.err = ""
    /\ c.name \in DOMAIN c.persistent
    /\ c.persistent[c.name] = ContentsOf(chunks, chunk_names(chunks, p).val)
    /\ Len(c.persistent[c.name]) = Total(p)
    /\ chunk_names(c.chunks, p).val = <<>>

\* the collect that returned last failed in a read or in the save
CollectFailed ==
    last.op = "collect" /\ last.err \in {ChunkReadFailure, PersistentStoreFailure}

\* C15: with no other request in flight, a collect of a complete upload
\* that failed in a chunk read or in the save leaves the upload complete,
\* and a collect made after it, when the fault is gone, succeeds: it saves
\* the whole merged file and deletes all the chunks.
C15_CollectAgainSucceeds ==
    CollectFailed
    => (/\ is_complete(chunks, last.params).val
        /\ ReachedDone(last.params, collect(chunks, persistent, last.params, NoFault, FALSE)))

\* a collect failed in the save, and the upload can be collected again
C15_Witness ==
    /\ CollectFailed
    /\ last.err = PersistentStoreFailure
    /\ collect(chunks, persistent, last.params, NoFault, FALSE).err = ""

\* the chunk number in the chunk name n of the upload of p
NumberIn(p, n) == ParseInt(SubSeq(n, Len(filename(p).val \o chunk_suffix) + 1, Len(n)))

\* the sequence of numbers is in ascending order
Ascending(ns) == \A i \in 1..Len(ns), j \in 1..Len(ns) : i < j => ns[i] < ns[j]

\* the chunk of p is stored under a name that ends in its number in 4 digits
FourDigits(p) ==
    /\ Len(current_chunk_name(p).val) = Len(filename(p).val \o chunk_suffix) + 4
    /\ NumberIn(p, current_chunk_name(p).val) = ParseInt(p.resumableChunkNumber)
    /\ StorageExists(chunks, current_chunk_name(p).val)

\* C16: for chunk numbers within 1..9999, however they are written, the
\* chunk name holds the number filled with zeros to 4 digits, so
\* chunk_names, in ascending order of the names, has the chunks in
\* ascending order of their numbers, and the merge has them in that order
\* whatever the order they were sent in.
C16_NamesSortByNumber ==
    /\ last.op = "process_chunk" => FourDigits(last.params)
    /\ Len(chunk_names(chunks, SharedUpload).val) = Cardinality(DOMAIN chunks)
    /\ Ascending([i \in 1..Len(chunk_names(chunks, SharedUpload).val) |->
                     NumberIn(SharedUpload, chunk_names(chunks, SharedUpload).val[i])])
    /\ is_complete(chunks, SharedUpload).val
       => Ascending(file(chunks, SharedUpload, NoFault).content)

\* chunk 9 was sent after chunk 10 and chunk 100, and the upload is complete
C16_Witness ==
    /\ last.op = "process_chunk"
    /\ last.file = <<9>>
    /\ last.old = <<>>
    /\ is_complete(chunks, SharedUpload).val
    /\ file(chunks, SharedUpload, NoFault).content = <<9, 10, 100>>

\* both requests are process_chunk calls for the same chunk of the upload
SameChunk ==
    /\ \A r \in Requests : requests[r].op = "process_chunk"
    /\ requests[1].params = requests[2].params

\* the stored names for the chunk of p
StoredFor(p) == {n \in DOMAIN chunks : IsPrefix(current_chunk_name(p).val, n)}

\* C17: of two process_chunk calls in flight for the same chunk of one
\* upload, when both have finished the chunk storage holds exactly one
\* object for that chunk, with the bytes of one of the two calls: never
\* two, never none.
C17_OneChunkAfterBoth ==
    (SameChunk /\ BothDone)
    => (/\ StoredFor(requests[1].params) = {current_chunk_name(requests[1].params).val}
        /\ chunks[current_chunk_name(requests[1].params).val]
               \in {requests[1].file, requests[2].file})

\* C18: the temporary file of the merge is released by the time collect is
\* left, whether the save succeeded or failed: no collect ends with the
\* temporary file still open.
C18_TempReleased ==
    last.op = "collect" => last.temp # "open"

\* the names other than the one of the chunk of p
OtherNames(store, p) == DOMAIN store \ {current_chunk_name(p).val}

\* C19: process_chunk of chunk k changes only what is stored under the name
\* of that chunk of that upload: every other chunk, of this upload and of
\* others, is as it was, the persistent storage is as it was, and nothing
\* is merged or deleted besides, also when the chunk completes the upload.
C19_OnlyOwnChunkChanges ==
    [][last'.op = "process_chunk"
       => (/\ last'.err # "" => chunks' = chunks
           /\ last'.err = ""
              => (/\ OtherNames(chunks', last'.params) = OtherNames(chunks, last'.params)
                  /\ \A n \in OtherNames(chunks, last'.params) : chunks'[n] = chunks[n]
                  /\ chunks'[current_chunk_name(last'.params).val] = last'.file)
           /\ persistent' = persistent
           /\ \A i \in 1..Len(last'.calls) : last'.calls[i] \in {"exists", "delete", "save"}
           /\ Cardinality({i \in 1..Len(last'.calls) : last'.calls[i] = "delete"}) <= 1)]_vars

\* a process_chunk stored the chunk that completes the upload
C19_Witness ==
    /\ last.op = "process_chunk"
    /\ last.err = ""
    /\ last.old = <<>>
    /\ is_complete(chunks, last.params).val
    /\ Cardinality(DOMAIN chunks) > 1
    /\ persistent = EmptyStorage

====
